---- MODULE Spec2Model ----
(***************************************************************************)
(* Cloudflare dynamic DNS updater.                                         *)
(*                                                                         *)
(* Several state machines share this module:                               *)
(*   Spec        src/src/index.ts (initializeDNSRecords, updateDNSRecords, *)
(*               main) on top of src/src/services/cloudflare.ts, the       *)
(*               module index.ts imports;                                  *)
(*   SpecLoop    Spec with a shorter record list and a timer that fires;   *)
(*   SpecGateway makeRequest of src/unnamed/part_003 (the rate-limited     *)
(*               request gateway) called by concurrent callers, with time; *)
(*   SpecSeq, SpecCalls, SpecWindow                                        *)
(*               makeRequest under one caller, with different histories    *)
(*               recorded;                                                 *)
(*   SpecResolver getZoneId and getRecordId of src/unnamed/part_003 with   *)
(*               their caches, on top of makeRequest;                      *)
(*   SpecRace    the same two functions called by concurrent callers;      *)
(*   SpecOperations                                                        *)
(*               getZoneId, getRecordId, getCurrentIP and updateDNS of     *)
(*               src/unnamed/part_003, on top of makeRequest;              *)
(*   SpecName    validateAndFixRecordName of src/unnamed/part_002;         *)
(*   SpecEntry   one CF_RECORD_NAMES entry through initializeDNSRecords of *)
(*               src/src/index.ts, up to its validated name.               *)
(*                                                                         *)
(* A string is a sequence of one-character strings, so that split, join,   *)
(* includes and endsWith are computed as the code computes them.           *)
(* Time is counted in ticks of 1000 ms.                                    *)
(***************************************************************************)
EXTENDS Integers, Sequences, FiniteSets, TLC

VARIABLES
    \* ---- configuration (process.env), fixed after start
    env,
    \* ---- provider state: content published for each record id
    published,
    \* ---- src/src/services/cloudflare.ts module state
    cachedZoneId, cachedRecordId,
    \* ---- src/src/index.ts: position of main() and its locals
    mainPc, idx, curZoneId, dnsRecords, publicIP, task,
    \* ---- observation of the run (history, not program state)
    exitCause, failedIdx, prevStored, obs,
    \* ---- src/unnamed/part_003: the clock, the rate window, and each caller
    \*      of makeRequest with its locals
    now, horizon, requestCount, windowStart, call,
    \* ---- observation of the gateway (history, not program state)
    detail, hist, recent, epoch, epochFetches, winObs,
    \* ---- src/unnamed/part_003: the identifier caches, and the position and
    \*      locals of a caller of getZoneId / getRecordId
    zoneIdCache, recordIdCache, res,
    \* ---- the provider's account as it stands now, and the first identifier
    \*      each key was resolved to (history, not program state)
    provGen, resolved,
    \* ---- src/unnamed/part_002: a call of validateAndFixRecordName, its
    \*      arguments and its result
    nm

mainVars == <<env, published, cachedZoneId, cachedRecordId, mainPc, idx,
              curZoneId, dnsRecords, publicIP, task, exitCause, failedIdx,
              prevStored, obs>>

gwVars == <<now, horizon, requestCount, windowStart, call, detail, hist,
            recent, epoch, epochFetches, winObs>>

resVars == <<zoneIdCache, recordIdCache, res, provGen, resolved, nm>>

None == "none"

\* ------------------------------------------------------------------ bounds

\* Longest CF_RECORD_NAMES list the model draws, and the longest one where the
\* poll loop is followed under a timer that fires.
MaxRecords == 2
MaxLoopRecords == 1

\* Concurrent callers of makeRequest (the per-record tasks of a poll cycle).
NumCallers == 2

\* Ticks the clock runs for with concurrent callers, and with one caller.
ConcHorizon == 3
SeqHorizon == 14

\* Longest record name and zone name, over the alphabet {w, .}, handed to
\* validateAndFixRecordName.
MaxNameLen == 3

\* Longest CF_RECORD_NAMES entry, over the alphabet {w, .}, that
\* initializeDNSRecords is followed on.
MaxEntryLen == 5

\* Ticks the clock runs for under the resolver's caller.
ResHorizon == 3

\* Ticks the clock runs for where the windows of one caller are observed.
WinHorizon == 4

\* Largest retry-after header value (seconds) a 429 response carries.
MaxRetryAfter == 2

\* part_003 line 32 sets the ceiling to 1000 requests and line 31 the window
\* to 5 * 60 * 1000 ms; the model keeps the code and scales both down.
MAX_REQUESTS_PER_WINDOW == 2
RATE_LIMIT_WINDOW == 3

\* ------------------------------------------------------ program constants

\* part_003 line 33: 1000 ms, one tick
RETRY_DELAY == 1
\* part_003 line 34
MAX_RETRIES == 3

\* ----------------------------------------------------------------- strings

Dot == "."

RECURSIVE Includes(_, _)
\* String.prototype.includes for a one-character needle
Includes(s, ch) ==
    IF s = <<>> THEN FALSE
    ELSE IF Head(s) = ch THEN TRUE ELSE Includes(Tail(s), ch)

\* String.prototype.endsWith
EndsWith(s, suffix) ==
    /\ Len(suffix) <= Len(s)
    /\ SubSeq(s, Len(s) - Len(suffix) + 1, Len(s)) = suffix

RECURSIVE SplitFrom(_, _, _)
\* helper of Split: cur is the part being read
SplitFrom(s, sep, cur) ==
    IF s = <<>> THEN <<cur>>
    ELSE IF Head(s) = sep THEN <<cur>> \o SplitFrom(Tail(s), sep, <<>>)
    ELSE SplitFrom(Tail(s), sep, Append(cur, Head(s)))

\* String.prototype.split(sep): "a.b" -> ["a","b"], "a" -> ["a"], "a." -> ["a",""]
Split(s, sep) == SplitFrom(s, sep, <<>>)

RECURSIVE JoinParts(_, _)
\* Array.prototype.join(sep)
JoinParts(parts, sep) ==
    IF parts = <<>> THEN <<>>
    ELSE IF Len(parts) = 1 THEN parts[1]
    ELSE parts[1] \o <<sep>> \o JoinParts(Tail(parts), sep)

\* Array.prototype.slice(-2)
LastTwo(parts) ==
    IF Len(parts) <= 2 THEN parts ELSE SubSeq(parts, Len(parts) - 1, Len(parts))

\* mutant of validateAndFixRecordName: a name that has a "." is taken as it is
validateAndFixDotOnly(recordName, zoneName) ==
    IF ~Includes(recordName, Dot)
    THEN IF EndsWith(recordName, <<Dot>>)
         THEN recordName \o zoneName
         ELSE recordName \o <<Dot>> \o zoneName
    ELSE recordName

\* mutant of validateAndFixRecordName: a name that ends with "." gets a second
\* one
validateAndFixAlwaysDot(recordName, zoneName) ==
    IF ~Includes(recordName, Dot) \/ ~EndsWith(recordName, zoneName)
    THEN recordName \o <<Dot>> \o zoneName
    ELSE recordName

\* src/unnamed/part_002 validateAndFixRecordName
validateAndFixRecordName(recordName, zoneName) ==
    IF ~Includes(recordName, Dot) \/ ~EndsWith(recordName, zoneName)
    THEN IF EndsWith(recordName, <<Dot>>)
         THEN recordName \o zoneName
         ELSE recordName \o <<Dot>> \o zoneName
    ELSE recordName

\* mutant of DeriveZoneName: the first two parts are taken, not the last two
DeriveZoneNameFirstTwo(recordName) ==
    LET parts == Split(recordName, Dot)
    IN  IF Len(parts) = 2 THEN recordName
        ELSE JoinParts(SubSeq(parts, 1, 2), Dot)

\* index.ts line 145: the zone name derived from a record name
DeriveZoneName(recordName) ==
    LET parts == Split(recordName, Dot)
    IN  IF Len(parts) = 2 THEN recordName ELSE JoinParts(LastTwo(parts), Dot)

\* ---------------------------------------------------------------- provider

\* Names an operator may put in CF_RECORD_NAMES.
N_ax  == <<"a", ".", "x">>                      \* "a.x"   apex of zone a.x
N_wax == <<"w", ".", "a", ".", "x">>            \* "w.a.x" A record in zone a.x
N_wby == <<"w", ".", "b", ".", "y">>            \* "w.b.y" A record in zone b.y
N_qax == <<"q", ".", "a", ".", "x">>            \* "q.a.x" no such A record
N_mcz == <<"m", ".", "c", ".", "z">>            \* "m.c.z" no such zone
N_a   == <<"a">>                                \* "a"     one part only
N_by  == <<"b", ".", "y">>                      \* "b.y"   zone name

ConfigNames == {N_ax, N_wax, N_wby, N_qax, N_mcz, N_a}

\* GET /zones: result array of {id, name}
ProviderZones ==
    << [id |-> "Z1", name |-> N_ax], [id |-> "Z2", name |-> N_by] >>

\* the records of the account: {id, name, type} and the zone that holds each
ProviderRecords ==
    << [id |-> "R0", name |-> N_qax, type |-> "AAAA", zone |-> "Z1"],
       [id |-> "R1", name |-> N_ax,  type |-> "A",    zone |-> "Z1"],
       [id |-> "R2", name |-> N_wax, type |-> "A",    zone |-> "Z1"],
       [id |-> "R3", name |-> N_wby, type |-> "A",    zone |-> "Z2"] >>

RecordIds == {ProviderRecords[i].id : i \in 1..Len(ProviderRecords)}
ZoneIds   == {ProviderZones[i].id : i \in 1..Len(ProviderZones)}
IPs       == {"ip1", "ip2"}

DNS_RECORD_TYPE == "A"
DNS_RECORD_TTL == 1
DNS_RECORD_PROXIED == FALSE

\* GET /zones/{zoneId}/dns_records: the records of that zone, in order
RecordsOfZone(zoneId) ==
    SelectSeq(ProviderRecords, LAMBDA r : r.zone = zoneId)

\* GET/PUT /zones/{zoneId}/dns_records/{recordId} addresses an existing record
RecordExists(zoneId, recordId) ==
    \E i \in 1..Len(ProviderRecords) :
        ProviderRecords[i].id = recordId /\ ProviderRecords[i].zone = zoneId

\* Array.prototype.find(z => z.name === zoneName): first match, or None
FindZone(result, zoneName) ==
    LET hits == SelectSeq(result, LAMBDA z : z.name = zoneName)
    IN  IF hits = <<>> THEN None ELSE hits[1].id

\* Array.prototype.find(r => r.name === recordName && r.type === 'A')
FindRecord(result, recordName) ==
    LET hits == SelectSeq(result,
                    LAMBDA r : r.name = recordName /\ r.type = DNS_RECORD_TYPE)
    IN  IF hits = <<>> THEN None ELSE hits[1].id

\* What a network call can come to: a decoded body with success true, a body
\* with success false, or a thrown network-level error.
Outcomes == {"ok", "rejected", "neterr"}

\* ------------------------------------------- src/src/index.ts and services

\* every CF_RECORD_NAMES list of at most n different entries (<<>>: unset)
NameListsUpTo(n) ==
    UNION {{s \in [1..k -> ConfigNames] :
               \A i, j \in 1..k : s[i] = s[j] => i = j} : k \in 0..n}

NameLists == NameListsUpTo(MaxRecords)

\* a name that is not set: process.env.CF_RECORD_NAME is undefined, and
\* JSON.stringify leaves the property out of the body
NoName == <<>>

\* process.env: CF_API_TOKEN set or not, CF_RECORD_NAMES, the override ids
\* CF_ZONE_ID and CF_RECORD_ID, and CF_RECORD_NAME, which is drawn set only
\* together with a token and without override ids
Envs(lists) ==
    {e \in [token : BOOLEAN, names : lists, zoneId : {None, "Z1"},
            recordId : {None, "R2"}, recordName : {NoName, N_wax}] :
        e.recordName # NoName =>
            (e.token /\ e.zoneId = None /\ e.recordId = None)}

\* what is observed of the process: its exit code, and in the current poll
\* cycle the calls of getPublicIP, whether the detection failed, and the calls
\* of getCurrentIP
NoObs == [exitCode |-> 0, ipCalls |-> 0, ipFailed |-> FALSE, reads |-> 0]

MainStart(lists) ==
    /\ env \in Envs(lists)
    /\ obs = NoObs
    /\ published = [r \in RecordIds |-> "ip1"]
    /\ cachedZoneId = None
    /\ cachedRecordId = None
    /\ mainPc = "start"
    /\ idx = 1
    /\ curZoneId = None
    /\ dnsRecords = <<>>
    /\ publicIP = None
    /\ task = <<>>
    /\ exitCause = None
    /\ failedIdx = 0
    /\ prevStored = <<>>

MainInit == MainStart(NameLists)

\* process.exit(1): nothing runs afterwards
Exit(cause) ==
    /\ mainPc' = "exited"
    /\ exitCause' = cause
    /\ obs' = [obs EXCEPT !.exitCode = 1]

\* index.ts 124-133: the two required variables, then the list is split
InitStart ==
    /\ mainPc = "start"
    /\ IF ~env.token \/ env.names = <<>>
       THEN Exit("config")
       ELSE mainPc' = "loop" /\ UNCHANGED <<exitCause, obs>>
    /\ UNCHANGED <<env, published, cachedZoneId, cachedRecordId, idx, curZoneId,
                   dnsRecords, publicIP, task, failedIdx, prevStored>>
    /\ UNCHANGED <<gwVars, resVars>>

\* the locals of one iteration of the for loop of initializeDNSRecords
CurName == env.names[idx]
CurZoneName == DeriveZoneName(CurName)
CurValidated == validateAndFixRecordName(CurName, CurZoneName)

\* mutant of InvalidFormat: the format of the name is not checked
InvalidFormatNever(recordName) == FALSE

\* index.ts 138-139: fewer than two dot-separated parts
InvalidFormat(recordName) == Len(Split(recordName, Dot)) < 2

\* index.ts 135-151 with cloudflare.ts 30-44: the loop head, the format check
\* and getZoneId up to its fetch
InitRecord ==
    /\ mainPc = "loop"
    /\ IF idx > Len(env.names)
       THEN /\ mainPc' = "detect"
            /\ UNCHANGED <<cachedZoneId, curZoneId, exitCause, obs>>
       ELSE IF InvalidFormat(CurName)
       THEN /\ Exit("config")
            /\ UNCHANGED <<cachedZoneId, curZoneId>>
       ELSE IF cachedZoneId # None
       THEN /\ curZoneId' = cachedZoneId
            /\ mainPc' = "record"
            /\ UNCHANGED <<cachedZoneId, exitCause, obs>>
       ELSE IF env.zoneId # None
       THEN /\ cachedZoneId' = env.zoneId
            /\ curZoneId' = env.zoneId
            /\ mainPc' = "record"
            /\ UNCHANGED <<exitCause, obs>>
       ELSE /\ mainPc' = "zoneFetch"
            /\ UNCHANGED <<cachedZoneId, curZoneId, exitCause, obs>>
    /\ UNCHANGED <<env, published, cachedRecordId, idx, dnsRecords, publicIP,
                   task, failedIdx, prevStored>>
    /\ UNCHANGED <<gwVars, resVars>>

\* index.ts 167-174: the catch of the loop body
InitCatch ==
    /\ Exit("resolution")
    /\ failedIdx' = idx

\* cloudflare.ts 45-62: the answer to GET /zones
ZoneFetchDone ==
    /\ mainPc = "zoneFetch"
    /\ \E o \in Outcomes :
         LET zone == FindZone(ProviderZones, CurZoneName)
         IN  IF o = "ok" /\ zone # None
             THEN /\ cachedZoneId' = zone
                  /\ curZoneId' = zone
                  /\ mainPc' = "record"
                  /\ UNCHANGED <<exitCause, failedIdx, obs>>
             ELSE /\ InitCatch
                  /\ UNCHANGED <<cachedZoneId, curZoneId>>
    /\ UNCHANGED <<env, published, cachedRecordId, idx, dnsRecords, publicIP,
                   task, prevStored>>
    /\ UNCHANGED <<gwVars, resVars>>

\* index.ts 161-166: dnsRecords.push, and on to the next name
PushRecord(recordId) ==
    /\ dnsRecords' = Append(dnsRecords,
                        [recordName |-> CurValidated, zoneName |-> CurZoneName,
                         zoneId |-> curZoneId, recordId |-> recordId])
    /\ idx' = idx + 1
    /\ mainPc' = "loop"

\* index.ts 152-156 with cloudflare.ts 64-78: getRecordId up to its fetch
RecordLookup ==
    /\ mainPc = "record"
    /\ IF cachedRecordId # None
       THEN /\ PushRecord(cachedRecordId)
            /\ UNCHANGED cachedRecordId
       ELSE IF env.recordId # None
       THEN /\ cachedRecordId' = env.recordId
            /\ PushRecord(env.recordId)
       ELSE /\ mainPc' = "recordFetch"
            /\ UNCHANGED <<cachedRecordId, dnsRecords, idx>>
    /\ UNCHANGED <<env, published, cachedZoneId, curZoneId, publicIP, task,
                   exitCause, failedIdx, prevStored, obs>>
    /\ UNCHANGED <<gwVars, resVars>>

\* cloudflare.ts 79-96: the answer to GET /zones/{zoneId}/dns_records
RecordFetchDone ==
    /\ mainPc = "recordFetch"
    /\ \E o \in Outcomes :
         LET record == FindRecord(RecordsOfZone(curZoneId), CurValidated)
         IN  IF o = "ok" /\ record # None
             THEN /\ cachedRecordId' = record
                  /\ PushRecord(record)
                  /\ UNCHANGED <<exitCause, failedIdx, obs>>
             ELSE /\ InitCatch
                  /\ UNCHANGED <<cachedRecordId, dnsRecords, idx>>
    /\ UNCHANGED <<env, published, cachedZoneId, curZoneId, publicIP, task,
                   prevStored>>
    /\ UNCHANGED <<gwVars, resVars>>

\* mutant of NeedsUpdate: the comparison is dropped, every read is followed
\* by an update
NeedsUpdateAlways(pub, cur) == TRUE

\* index.ts 185: publicIP !== currentIP
NeedsUpdate(pub, cur) == pub # cur

\* mutant of PutBodyContent: the PUT carries the address that was read
PutBodyContentStale(pub, cur) == cur

\* index.ts 187 with cloudflare.ts 125: the content of the PUT body
PutBodyContent(pub, cur) == pub

Tasks == 1..Len(task)

\* no PUT was issued
NoBody == [type |-> None, name |-> NoName, content |-> None, ttl |-> 0,
           proxied |-> FALSE]

\* cloudflare.ts 122-128: the body of the PUT
PutBody(e, rec, content) ==
    [type |-> DNS_RECORD_TYPE, name |-> e.recordName, content |-> content,
     ttl |-> DNS_RECORD_TTL, proxied |-> DNS_RECORD_PROXIED]

NewTask ==
    [pc |-> "read", currentIP |-> None, puts |-> 0, putContent |-> None,
     stored |-> None, putBody |-> NoBody]

\* mutant of IpCalls: getPublicIP is called inside the map, once per record
IpCallsPerRecord(records) == Len(records)

\* index.ts 213: getPublicIP is called before updateDNSRecords, once whatever
\* the number of records
IpCalls(records) == 1

\* mutant of CatchCycleError: the error of a cycle is thrown on, out of main
CatchCycleErrorExits == "exited"

\* index.ts 215-223: the catch of the loop body logs, and the loop goes on to
\* its sleep
CatchCycleError == "sleep"

\* index.ts 212-214 and 181-183: getPublicIP, then updateDNSRecords maps every
\* record to a task, each of which runs up to the fetch of its getCurrentIP
DetectIP ==
    /\ mainPc = "detect"
    /\ \E ip \in IPs \cup {None} :
         IF ip = None
         THEN /\ mainPc' = CatchCycleError
              /\ obs' = [obs EXCEPT !.ipCalls = IpCalls(dnsRecords),
                                    !.ipFailed = TRUE, !.reads = 0]
              /\ UNCHANGED <<publicIP, task, prevStored>>
         ELSE /\ obs' = [obs EXCEPT !.ipCalls = IpCalls(dnsRecords),
                                    !.ipFailed = FALSE,
                                    !.reads = Len(dnsRecords)]
              /\ publicIP' = ip
              /\ task' = [i \in 1..Len(dnsRecords) |-> NewTask]
              /\ prevStored' = [i \in Tasks |->
                                  [ip |-> publicIP, stored |-> task[i].stored]]
              /\ mainPc' = "fanout"
    /\ UNCHANGED <<env, published, cachedZoneId, cachedRecordId, idx, curZoneId,
                   dnsRecords, exitCause, failedIdx>>
    /\ UNCHANGED <<gwVars, resVars>>

\* index.ts 183-198 with cloudflare.ts 98-112: the answer to getCurrentIP, the
\* comparison, and updateDNS up to its fetch
ReadDone(i) ==
    /\ mainPc = "fanout"
    /\ task[i].pc = "read"
    /\ \E o \in Outcomes :
         LET rec == dnsRecords[i]
             cur == published[rec.recordId]
         IN  IF o = "ok" /\ RecordExists(rec.zoneId, rec.recordId)
             THEN IF NeedsUpdate(publicIP, cur)
                  THEN task' = [task EXCEPT ![i].pc = "put",
                                           ![i].currentIP = cur,
                                           ![i].puts = @ + 1,
                                           ![i].putContent =
                                               PutBodyContent(publicIP, cur),
                                           ![i].putBody =
                                               PutBody(env, rec,
                                                 PutBodyContent(publicIP, cur))]
                  ELSE task' = [task EXCEPT ![i].pc = "done",
                                           ![i].currentIP = cur]
             ELSE task' = [task EXCEPT ![i].pc = "failed"]
    /\ UNCHANGED <<env, published, cachedZoneId, cachedRecordId, mainPc, idx,
                   curZoneId, dnsRecords, publicIP, exitCause, failedIdx,
                   prevStored, obs>>
    /\ UNCHANGED <<gwVars, resVars>>

\* index.ts 187-198 with cloudflare.ts 114-135: the answer to the PUT
PutDone(i) ==
    /\ mainPc = "fanout"
    /\ task[i].pc = "put"
    /\ \E o \in Outcomes :
         LET rec == dnsRecords[i]
         IN  IF o = "ok" /\ RecordExists(rec.zoneId, rec.recordId)
             THEN /\ published' = [published EXCEPT
                                      ![rec.recordId] = task[i].putContent]
                  /\ task' = [task EXCEPT ![i].pc = "done",
                                         ![i].stored = task[i].putContent]
             ELSE /\ task' = [task EXCEPT ![i].pc = "failed"]
                  /\ UNCHANGED published
    /\ UNCHANGED <<env, cachedZoneId, cachedRecordId, mainPc, idx, curZoneId,
                   dnsRecords, publicIP, exitCause, failedIdx, prevStored, obs>>
    /\ UNCHANGED <<gwVars, resVars>>

\* mutant of Settled: the tasks are raced, the first one to end ends the wait
SettledFirst(tasks) ==
    \/ tasks = <<>>
    \/ \E i \in DOMAIN tasks : tasks[i].pc \in {"done", "failed"}

\* mutant of Settled: a task that failed rejects, and Promise.all with it
SettledOrRejected(tasks) ==
    \/ \A i \in DOMAIN tasks : tasks[i].pc \in {"done", "failed"}
    \/ \E i \in DOMAIN tasks : tasks[i].pc = "failed"

\* index.ts 192-201: every task catches its own error, so Promise.all resolves
\* when all of them have ended
Settled(tasks) ==
    \A i \in DOMAIN tasks : tasks[i].pc \in {"done", "failed"}

\* index.ts 201: Promise.all over the tasks, none of which rejects
Join ==
    /\ mainPc = "fanout"
    /\ Settled(task)
    /\ mainPc' = "sleep"
    /\ UNCHANGED <<env, published, cachedZoneId, cachedRecordId, idx, curZoneId,
                   dnsRecords, publicIP, task, exitCause, failedIdx, prevStored,
                   obs>>
    /\ UNCHANGED <<gwVars, resVars>>

\* index.ts 223: the poll interval elapses
Sleep ==
    /\ mainPc = "sleep"
    /\ mainPc' = "detect"
    /\ obs' = NoObs
    /\ UNCHANGED <<env, published, cachedZoneId, cachedRecordId, idx, curZoneId,
                   dnsRecords, publicIP, task, exitCause, failedIdx, prevStored>>
    /\ UNCHANGED <<gwVars, resVars>>

MainNext ==
    \/ InitStart
    \/ InitRecord
    \/ ZoneFetchDone
    \/ RecordLookup
    \/ RecordFetchDone
    \/ DetectIP
    \/ \E i \in Tasks : ReadDone(i)
    \/ \E i \in Tasks : PutDone(i)
    \/ Join
    \/ Sleep

\* --------------------------------------- src/unnamed/part_003 makeRequest

Callers == DOMAIN call

RECURSIVE Pow2(_)
\* Math.pow(2, n)
Pow2(n) == IF n = 0 THEN 1 ELSE 2 * Pow2(n - 1)

\* the url and options a caller hands to makeRequest
Requests == {"GET", "PUT"}

\* headers.get('retry-after') of a response without that header
NoHeader == -1

\* what fetch can come to: a response (its status and its retry-after header)
\* or, as NoResponse, a thrown network-level error
Responses ==
    [status : {200, 500}, retryAfter : {NoHeader}]
        \cup [status : {429}, retryAfter : {NoHeader} \cup (0..MaxRetryAfter)]

NoResponse == [status |-> 0, retryAfter |-> NoHeader]

\* a caller outside makeRequest, and the locals of a call that begins
IdleCall == [pc |-> "idle", req |-> None, retries |-> 0, wakeAt |-> 0]

\* what is observed of one call: the fetches issued, what each came to, the
\* time a retry-after header asks to wait until, whether a fetch was issued
\* before that time, the request last handed to fetch, the response returned
NoHist ==
    [nFetch |-> 0, log |-> <<>>, notBefore |-> NoHeader, early |-> FALSE,
     sent |-> None, result |-> NoResponse]

\* the main program parked under configuration e: the gateway and the resolver
\* are exercised by their callers alone
MainOff(e) ==
    /\ env = e
    /\ published = [r \in RecordIds |-> "ip1"]
    /\ cachedZoneId = None
    /\ cachedRecordId = None
    /\ mainPc = "off"
    /\ idx = 1
    /\ curZoneId = None
    /\ dnsRecords = <<>>
    /\ publicIP = None
    /\ task = <<>>
    /\ exitCause = None
    /\ failedIdx = 0
    /\ prevStored = <<>>
    /\ obs = NoObs

MainParked ==
    MainOff([token |-> TRUE, names |-> <<>>, zoneId |-> None,
             recordId |-> None, recordName |-> NoName])

\* what is recorded of a run: each call's history, the times of the fetches
Unobserved == [calls |-> FALSE, times |-> FALSE]
CallsObserved == [calls |-> TRUE, times |-> FALSE]
AllObserved == [calls |-> TRUE, times |-> TRUE]

\* part_003 lines 37-38: requestCount = 0, windowStart = Date.now(); n callers,
\* a clock that runs for h ticks, and what is recorded of the run
GatewayStart(n, h, d) ==
    /\ now = 0
    /\ horizon = h
    /\ requestCount = 0
    /\ windowStart = 0
    /\ call = [c \in 1..n |-> IdleCall]
    /\ detail = d
    /\ hist = [c \in 1..n |-> NoHist]
    /\ recent = <<>>
    /\ epoch = 0
    /\ epochFetches = 0

\* what is observed of the current window: whether the one before it was used
\* up, the calls that began or went on in it, the fetches issued in it
WinOff == [on |-> FALSE, wasFull |-> FALSE, calls |-> 0, fetches |-> 0]
WinFresh == [WinOff EXCEPT !.on = TRUE]

\* the gateway parked: index.ts is exercised with the outcome of each call
GatewayParked == GatewayStart(0, 0, Unobserved) /\ winObs = WinOff

\* line 46: now - windowStart >= RATE_LIMIT_WINDOW
WindowExpired(t, ws) == t - ws >= RATE_LIMIT_WINDOW

\* mutant of OverLimit: the caller waits one request before the ceiling
OverLimitEarly(count) == count >= MAX_REQUESTS_PER_WINDOW - 1

\* mutant of OverLimit: the comparison is off by one
OverLimitOffByOne(count) == count > MAX_REQUESTS_PER_WINDOW

\* line 52: requestCount >= MAX_REQUESTS_PER_WINDOW
OverLimit(count) == count >= MAX_REQUESTS_PER_WINDOW

\* mutant of QuotaWaitTime: the wait ends one tick before the window does
QuotaWaitTimeShort(t, ws) == RATE_LIMIT_WINDOW - (t - ws) - 1

\* line 53: RATE_LIMIT_WINDOW - (now - windowStart)
QuotaWaitTime(t, ws) == RATE_LIMIT_WINDOW - (t - ws)

\* mutant of Wait429: the backoff is computed after retries++, as at line 90
Wait429AfterIncrement(retryAfter, retries) ==
    IF retryAfter # NoHeader THEN retryAfter
    ELSE RETRY_DELAY * Pow2(retries + 1)

\* mutant of Wait429: the retry-after header is not read
Wait429IgnoresHeader(retryAfter, retries) == RETRY_DELAY * Pow2(retries)

\* line 74: retryAfter ? parseInt(retryAfter) * 1000 : RETRY_DELAY * 2^retries
Wait429(retryAfter, retries) ==
    IF retryAfter # NoHeader THEN retryAfter ELSE RETRY_DELAY * Pow2(retries)

\* mutant of Exceeded429: a 429 is retried without end
Exceeded429Never(retries) == FALSE

\* line 78: retries >= MAX_RETRIES, after retries++
Exceeded429(retries) == retries >= MAX_RETRIES

\* mutant of CatchRethrows: one more retry before the error is rethrown
CatchRethrowsLate(retries) == retries > MAX_RETRIES

\* line 86: retries >= MAX_RETRIES, before retries++
CatchRethrows(retries) == retries >= MAX_RETRIES

\* line 90: RETRY_DELAY * 2^retries, after retries++
WaitError(retries) == RETRY_DELAY * Pow2(retries)

\* setTimeout(resolve, wait): the time the timer is due; a timer due after the
\* clock stops never fires, whatever its time
Timer(wait) == IF now + wait > horizon THEN horizon + 1 ELSE now + wait

\* the last MAX_REQUESTS_PER_WINDOW + 1 times at which a fetch was issued
Remember(times, t) ==
    IF Len(times) <= MAX_REQUESTS_PER_WINDOW
    THEN Append(times, t)
    ELSE Append(Tail(times), t)

\* history of a fetch being issued. A reset of the window made once the
\* window that began at epoch has run out opens the next one; the count of
\* fetches since then stops at the first value above the ceiling.
ObserveFetch(c, h, req, reset) ==
    /\ recent' = IF detail.times THEN Remember(recent, now) ELSE recent
    /\ IF detail.calls
       THEN hist' = [hist EXCEPT ![c] =
                          [h EXCEPT !.nFetch = @ + 1,
                                    !.sent = req,
                                    !.early = @ \/ (h.notBefore # NoHeader
                                                    /\ now < h.notBefore),
                                    !.notBefore = NoHeader]]
       ELSE UNCHANGED hist
    /\ IF reset /\ now - epoch >= RATE_LIMIT_WINDOW
       THEN epoch' = now /\ epochFetches' = 1
       ELSE /\ epoch' = epoch
            /\ epochFetches' =
                 IF epochFetches > MAX_REQUESTS_PER_WINDOW
                 THEN epochFetches ELSE epochFetches + 1

\* history of a step of a call that issues no fetch
Observe(c, h) ==
    /\ hist' = IF detail.calls THEN [hist EXCEPT ![c] = h] ELSE hist
    /\ UNCHANGED <<recent, epoch, epochFetches>>

\* history of the window: a reset opens a window whose first call is the one
\* that made the reset; the counts stop at the first value above the ceiling
ObserveWindow(reset, fresh, fetched) ==
    LET inc(n) == IF n > MAX_REQUESTS_PER_WINDOW THEN n ELSE n + 1
    IN  winObs' =
          IF ~winObs.on THEN winObs
          ELSE IF reset
          THEN [on |-> TRUE, wasFull |-> OverLimit(requestCount),
                calls |-> 1, fetches |-> 1]
          ELSE [winObs EXCEPT
                  !.calls = IF fresh THEN inc(@) ELSE @,
                  !.fetches = IF fetched THEN inc(@) ELSE @]

\* lines 61-62: requestCount++, fetch(url, options)
IssueFetch(c, rec, h, count, ws, reset) ==
    /\ requestCount' = count + 1
    /\ windowStart' = ws
    /\ call' = [call EXCEPT ![c] = [rec EXCEPT !.pc = "fetching", !.wakeAt = 0]]
    /\ ObserveFetch(c, h, rec.req, reset)

\* lines 43-62: the top of the loop down to the first await
LoopTop(c, rec, h) ==
    LET expired == WindowExpired(now, windowStart)
        count == IF expired THEN 0 ELSE requestCount
        ws == IF expired THEN now ELSE windowStart
    IN  IF OverLimit(count)
        THEN /\ requestCount' = count
             /\ windowStart' = ws
             /\ call' = [call EXCEPT ![c] =
                           [rec EXCEPT !.pc = "quotaWait",
                                       !.wakeAt = Timer(QuotaWaitTime(now, ws))]]
             /\ Observe(c, h)
             /\ ObserveWindow(FALSE, rec.retries = 0, FALSE)
        ELSE /\ IssueFetch(c, rec, h, count, ws, expired)
             /\ ObserveWindow(expired, rec.retries = 0, TRUE)

\* lines 40-41: a caller calls makeRequest(url, options)
Call(c) ==
    /\ call[c].pc \in {"idle", "returned", "threw"}
    /\ \E r \in Requests : LoopTop(c, [IdleCall EXCEPT !.req = r], NoHist)
    /\ UNCHANGED <<now, horizon, detail>>
    /\ UNCHANGED <<mainVars, resVars>>

\* lines 55-62: the quota wait is over
WakeQuota(c) ==
    /\ call[c].pc = "quotaWait"
    /\ now >= call[c].wakeAt
    /\ IssueFetch(c, call[c], hist[c], 0, now, TRUE)
    /\ ObserveWindow(TRUE, FALSE, TRUE)
    /\ UNCHANGED <<now, horizon, detail>>
    /\ UNCHANGED <<mainVars, resVars>>

\* lines 62-90: fetch settles
FetchDone(c) ==
    /\ call[c].pc = "fetching"
    /\ \E r \in Responses \cup {NoResponse} :
         IF r = NoResponse
         THEN /\ IF CatchRethrows(call[c].retries)
                 THEN call' = [call EXCEPT ![c].pc = "threw"]
                 ELSE call' = [call EXCEPT
                                 ![c].pc = "waitErr",
                                 ![c].retries = @ + 1,
                                 ![c].wakeAt =
                                     Timer(WaitError(call[c].retries + 1))]
              /\ Observe(c, [hist[c] EXCEPT !.log = Append(@, "net")])
         ELSE IF r.status = 429
         THEN /\ call' = [call EXCEPT
                            ![c].pc = "wait429",
                            ![c].wakeAt =
                                Timer(Wait429(r.retryAfter, call[c].retries))]
              /\ Observe(c, [hist[c] EXCEPT
                               !.log = Append(@, IF r.retryAfter = NoHeader
                                                 THEN "429" ELSE "429ra"),
                               !.notBefore =
                                   IF r.retryAfter = NoHeader THEN NoHeader
                                   ELSE now + r.retryAfter])
         ELSE /\ call' = [call EXCEPT ![c].pc = "returned"]
              /\ Observe(c, [hist[c] EXCEPT !.log = Append(@, "other"),
                                            !.result = r])
    /\ UNCHANGED <<now, horizon, detail, requestCount, windowStart, winObs>>
    /\ UNCHANGED <<mainVars, resVars>>

\* lines 76-81 and 85-90: the 429 wait is over
Wake429(c) ==
    /\ call[c].pc = "wait429"
    /\ now >= call[c].wakeAt
    /\ LET rec == [call[c] EXCEPT !.retries = @ + 1, !.wakeAt = 0]
       IN  IF Exceeded429(rec.retries)
           THEN \* thrown inside the try, so caught at line 85
                /\ IF CatchRethrows(rec.retries)
                   THEN call' = [call EXCEPT ![c] = [rec EXCEPT !.pc = "threw"]]
                   ELSE call' = [call EXCEPT ![c] =
                                   [rec EXCEPT
                                      !.pc = "waitErr",
                                      !.retries = @ + 1,
                                      !.wakeAt =
                                          Timer(WaitError(rec.retries + 1))]]
                /\ Observe(c, hist[c])
                /\ UNCHANGED <<requestCount, windowStart, winObs>>
           ELSE LoopTop(c, rec, hist[c])
    /\ UNCHANGED <<now, horizon, detail>>
    /\ UNCHANGED <<mainVars, resVars>>

\* lines 90 and 43: the wait after a network error is over
WakeError(c) ==
    /\ call[c].pc = "waitErr"
    /\ now >= call[c].wakeAt
    /\ LoopTop(c, [call[c] EXCEPT !.wakeAt = 0], hist[c])
    /\ UNCHANGED <<now, horizon, detail>>
    /\ UNCHANGED <<mainVars, resVars>>

\* the clock: Date.now() grows; a timer fires at or after its time
Tick ==
    /\ now < horizon
    /\ now' = now + 1
    /\ UNCHANGED <<horizon, requestCount, windowStart, call, detail, hist,
                   recent, epoch, epochFetches, winObs>>
    /\ UNCHANGED <<mainVars, resVars>>

GatewayNext ==
    \/ \E c \in Callers : Call(c)
    \/ \E c \in Callers : WakeQuota(c)
    \/ \E c \in Callers : FetchDone(c)
    \/ \E c \in Callers : Wake429(c)
    \/ \E c \in Callers : WakeError(c)
    \/ Tick

\* ------------------------ src/unnamed/part_002 validateAndFixRecordName

N_www     == <<"w", "w", "w">>
N_wwwDot  == <<"w", "w", "w", ".">>
N_example == <<"e", "x", "a", "m", "p", "l", "e", ".", "c", "o", "m">>
N_wwwExample == N_www \o <<Dot>> \o N_example

\* every string over {w, .} of at most n characters
ShortNames(n) == UNION {[1..k -> {"w", Dot}] : k \in 0..n}

\* the record names and zone names the function is called with
NameInputs == ShortNames(MaxNameLen) \cup {N_www, N_wwwDot, N_wwwExample}
ZoneInputs == ShortNames(MaxNameLen - 1) \cup {N_example}

\* no call of validateAndFixRecordName is under way
NmOff == [pc |-> "off", recordName |-> <<>>, zoneName |-> <<>>, out |-> <<>>,
          again |-> <<>>]

\* part_002 lines 33-46: the function is called and returns
Validate ==
    /\ nm.pc = "call"
    /\ nm' = [nm EXCEPT !.pc = "returned",
                        !.out = validateAndFixRecordName(nm.recordName,
                                                         nm.zoneName)]
    /\ UNCHANGED <<zoneIdCache, recordIdCache, res, provGen, resolved>>
    /\ UNCHANGED <<mainVars, gwVars>>

\* part_002 lines 33-46: the function is called with its own result and the
\* same zone name
ValidateAgain ==
    /\ nm.pc = "returned"
    /\ nm' = [nm EXCEPT !.pc = "twice",
                        !.again = validateAndFixRecordName(nm.out, nm.zoneName)]
    /\ UNCHANGED <<zoneIdCache, recordIdCache, res, provGen, resolved>>
    /\ UNCHANGED <<mainVars, gwVars>>

\* the entries of CF_RECORD_NAMES initializeDNSRecords is followed on
EntryInputs == ShortNames(MaxEntryLen) \cup ConfigNames \cup {N_wwwExample}

\* index.ts 138-148: one entry of CF_RECORD_NAMES is split, its zone name is
\* derived and validateAndFixRecordName gives the name that is handed to
\* getRecordId and stored in the record
ValidateEntry ==
    /\ nm.pc = "entry"
    /\ IF InvalidFormat(nm.recordName)
       THEN nm' = [nm EXCEPT !.pc = "invalid"]
       ELSE nm' = [nm EXCEPT
                     !.pc = "validated",
                     !.zoneName = DeriveZoneName(nm.recordName),
                     !.out = validateAndFixRecordName(
                                 nm.recordName, DeriveZoneName(nm.recordName))]
    /\ UNCHANGED <<zoneIdCache, recordIdCache, res, provGen, resolved>>
    /\ UNCHANGED <<mainVars, gwVars>>

\* ------------------- src/unnamed/part_003 getZoneId / getRecordId (caches)

N_cz == <<"c", ".", "z">>                       \* "c.z"   no such zone

\* the account some time later: zone b.y was deleted and created again, and so
\* was the A record w.a.x; generation 0 is ProviderZones / ProviderRecords
ProviderZonesAt(g) ==
    IF g = 0 THEN ProviderZones
    ELSE << [id |-> "Z1", name |-> N_ax], [id |-> "Z3", name |-> N_by] >>

ProviderRecordsAt(g) ==
    IF g = 0 THEN ProviderRecords
    ELSE << [id |-> "R0", name |-> N_qax, type |-> "AAAA", zone |-> "Z1"],
            [id |-> "R1", name |-> N_ax,  type |-> "A",    zone |-> "Z1"],
            [id |-> "R4", name |-> N_wax, type |-> "A",    zone |-> "Z1"] >>

\* GET /zones/{zoneId}/dns_records at generation g
RecordsOfZoneAt(g, zoneId) ==
    SelectSeq(ProviderRecordsAt(g), LAMBDA r : r.zone = zoneId)

\* the arguments the callers hand to getZoneId and to getRecordId
ResZoneNames   == {N_ax, N_by, N_cz}
ResZoneIds     == {"Z1", "Z2"}
ResRecordNames == {N_wax, N_wby}

\* line 135: `${zoneId}:${recordName}`
CacheKey(zoneId, recordName) == <<zoneId, ":">> \o recordName

RecordKeys == {CacheKey(z, n) : z \in ResZoneIds, n \in ResRecordNames}

\* a caller of the resolver outside any call
IdleRes ==
    [pc |-> "idle", fn |-> None, key |-> <<>>, zoneId |-> None, name |-> <<>>,
     recordId |-> None, ip |-> None, out |-> None, known |-> None,
     lookups |-> 0, body |-> None]

\* mutant of Success: the success flag of the body is not read
SuccessIgnored(o) == TRUE

\* lines 115, 156, 183, 207: data.success of the decoded body
Success(o) == o = "ok"

\* the body of the response a call of makeRequest has returned, if any
BodyOf(c, o) == IF call[c].pc = "returned" THEN o ELSE None

\* lines 27-28: two empty Maps; Map.get of an absent key is undefined
ResolverStart(n) ==
    /\ zoneIdCache = [k \in ResZoneNames |-> None]
    /\ recordIdCache = [k \in RecordKeys |-> None]
    /\ res = [c \in 1..n |-> IdleRes]
    /\ provGen = 0
    /\ resolved = [k \in ResZoneNames \cup RecordKeys |-> None]
    /\ nm = NmOff

\* the caches parked
CachesParked ==
    /\ zoneIdCache = <<>>
    /\ recordIdCache = <<>>
    /\ res = <<>>
    /\ provGen = 0
    /\ resolved = <<>>

\* the resolver parked
ResolverParked == CachesParked /\ nm = NmOff

\* the id a call has returned is remembered as the first one of its key
Resolve(c, r, k) ==
    /\ res' = [res EXCEPT ![c] = r]
    /\ resolved' = IF resolved[k] = None
                   THEN [resolved EXCEPT ![k] = r.out] ELSE resolved

\* mutant of ZoneCacheHit: the cache is not consulted
ZoneCacheMiss(cache, zoneName) == None

\* lines 97-98: zoneIdCache.get(zoneName)
ZoneCacheHit(cache, zoneName) == cache[zoneName]

\* mutant of ZoneIdOverride: CF_ZONE_ID is not read
ZoneIdOverrideUnread(e) == None

\* line 101: process.env.CF_ZONE_ID
ZoneIdOverride(e) == e.zoneId

\* line 142: process.env.CF_RECORD_ID
RecordIdOverride(e) == e.recordId

\* lines 95-112: getZoneId(zoneName) down to its return or to the first await
\* inside makeRequest
GetZoneId(c, zoneName) ==
    /\ res[c].pc \in {"idle", "done", "failed"}
    /\ call[c].pc \in {"idle", "returned", "threw"}
    /\ LET r == [IdleRes EXCEPT !.fn = "zone", !.key = zoneName,
                                !.name = zoneName,
                                !.known = resolved[zoneName]]
           hit == ZoneCacheHit(zoneIdCache, zoneName)
       IN  IF hit # None
           THEN /\ Resolve(c, [r EXCEPT !.pc = "done", !.out = hit], zoneName)
                /\ UNCHANGED <<zoneIdCache, gwVars>>
           ELSE IF ZoneIdOverride(env) # None
           THEN /\ zoneIdCache' =
                      [zoneIdCache EXCEPT ![zoneName] = ZoneIdOverride(env)]
                /\ Resolve(c, [r EXCEPT !.pc = "done",
                                         !.out = ZoneIdOverride(env)],
                           zoneName)
                /\ UNCHANGED gwVars
           ELSE /\ res' = [res EXCEPT ![c] =
                               [r EXCEPT !.pc = "await", !.lookups = 1]]
                /\ LoopTop(c, [IdleCall EXCEPT !.req = "GET"], NoHist)
                /\ UNCHANGED <<zoneIdCache, resolved, now, horizon, detail>>
    /\ UNCHANGED <<recordIdCache, provGen, nm>>
    /\ UNCHANGED mainVars

\* lines 113-130: makeRequest has returned or thrown
ZoneAnswer(c) ==
    /\ res[c].pc = "await"
    /\ res[c].fn = "zone"
    /\ call[c].pc \in {"returned", "threw"}
    /\ \E o \in {"ok", "rejected"} :
         LET zone == FindZone(ProviderZonesAt(provGen), res[c].name)
         IN  IF call[c].pc = "returned" /\ Success(o) /\ zone # None
             THEN /\ zoneIdCache' = [zoneIdCache EXCEPT ![res[c].name] = zone]
                  /\ Resolve(c, [res[c] EXCEPT !.pc = "done", !.out = zone,
                                               !.body = o],
                             res[c].name)
             ELSE /\ res' = [res EXCEPT ![c].pc = "failed",
                                        ![c].body = BodyOf(c, o)]
                  /\ UNCHANGED <<zoneIdCache, resolved>>
    /\ UNCHANGED <<recordIdCache, provGen, nm>>
    /\ UNCHANGED <<mainVars, gwVars>>

\* mutant of RecordCacheHit: the cache is not consulted
RecordCacheMiss(cache, key) == None

\* lines 138-139: recordIdCache.get(cacheKey)
RecordCacheHit(cache, key) == cache[key]

\* lines 133-153: getRecordId(zoneId, recordName) down to its return or to the
\* first await inside makeRequest
GetRecordId(c, zoneId, recordName) ==
    /\ res[c].pc \in {"idle", "done", "failed"}
    /\ call[c].pc \in {"idle", "returned", "threw"}
    /\ LET key == CacheKey(zoneId, recordName)
           r == [IdleRes EXCEPT !.fn = "record", !.key = key,
                                !.zoneId = zoneId, !.name = recordName,
                                !.known = resolved[
                                              CacheKey(zoneId, recordName)]]
           hit == RecordCacheHit(recordIdCache, key)
       IN  IF hit # None
           THEN /\ Resolve(c, [r EXCEPT !.pc = "done", !.out = hit],
                           CacheKey(zoneId, recordName))
                /\ UNCHANGED <<recordIdCache, gwVars>>
           ELSE IF RecordIdOverride(env) # None
           THEN /\ recordIdCache' =
                      [recordIdCache EXCEPT ![key] = RecordIdOverride(env)]
                /\ Resolve(c, [r EXCEPT !.pc = "done",
                                         !.out = RecordIdOverride(env)],
                           CacheKey(zoneId, recordName))
                /\ UNCHANGED gwVars
           ELSE /\ res' = [res EXCEPT ![c] =
                               [r EXCEPT !.pc = "await", !.lookups = 1]]
                /\ LoopTop(c, [IdleCall EXCEPT !.req = "GET"], NoHist)
                /\ UNCHANGED <<recordIdCache, resolved, now, horizon, detail>>
    /\ UNCHANGED <<zoneIdCache, provGen, nm>>
    /\ UNCHANGED mainVars

\* lines 154-171: makeRequest has returned or thrown
RecordAnswer(c) ==
    /\ res[c].pc = "await"
    /\ res[c].fn = "record"
    /\ call[c].pc \in {"returned", "threw"}
    /\ \E o \in {"ok", "rejected"} :
         LET record == FindRecord(RecordsOfZoneAt(provGen, res[c].zoneId),
                                  res[c].name)
         IN  IF call[c].pc = "returned" /\ Success(o) /\ record # None
             THEN /\ recordIdCache' =
                        [recordIdCache EXCEPT ![res[c].key] = record]
                  /\ Resolve(c, [res[c] EXCEPT !.pc = "done", !.out = record,
                                               !.body = o],
                             CacheKey(res[c].zoneId, res[c].name))
             ELSE /\ res' = [res EXCEPT ![c].pc = "failed",
                                        ![c].body = BodyOf(c, o)]
                  /\ UNCHANGED <<recordIdCache, resolved>>
    /\ UNCHANGED <<zoneIdCache, provGen, nm>>
    /\ UNCHANGED <<mainVars, gwVars>>

\* the (zoneId, recordId) pairs the callers hand to getCurrentIP and updateDNS
OpRecords == {<<"Z1", "R2">>, <<"Z2", "R3">>}

\* what the provider answers to a GET or PUT of one record: a body with
\* success false whenever it pleases, and always for a record it does not hold
RecordBodies(zoneId, recordId) ==
    IF RecordExists(zoneId, recordId) THEN {"ok", "rejected"} ELSE {"rejected"}

\* lines 174-181: getCurrentIP(zoneId, recordId) down to the first await inside
\* makeRequest
GetCurrentIP(c, zoneId, recordId) ==
    /\ res[c].pc \in {"idle", "done", "failed"}
    /\ call[c].pc \in {"idle", "returned", "threw"}
    /\ res' = [res EXCEPT ![c] =
                  [IdleRes EXCEPT !.pc = "await", !.fn = "current",
                                  !.zoneId = zoneId, !.recordId = recordId]]
    /\ LoopTop(c, [IdleCall EXCEPT !.req = "GET"], NoHist)
    /\ UNCHANGED <<now, horizon, detail>>
    /\ UNCHANGED <<zoneIdCache, recordIdCache, provGen, resolved, nm>>
    /\ UNCHANGED mainVars

\* lines 182-187: makeRequest has returned or thrown
CurrentIPAnswer(c) ==
    /\ res[c].pc = "await"
    /\ res[c].fn = "current"
    /\ call[c].pc \in {"returned", "threw"}
    /\ \E o \in RecordBodies(res[c].zoneId, res[c].recordId) :
         IF call[c].pc = "returned" /\ Success(o)
         THEN res' = [res EXCEPT ![c].pc = "done", ![c].body = o,
                                 ![c].out = published[res[c].recordId]]
         ELSE res' = [res EXCEPT ![c].pc = "failed",
                                 ![c].body = BodyOf(c, o)]
    /\ UNCHANGED <<zoneIdCache, recordIdCache, provGen, resolved, nm>>
    /\ UNCHANGED <<mainVars, gwVars>>

\* lines 190-205: updateDNS(zoneId, recordId, ip) down to the first await inside
\* makeRequest
UpdateDNS(c, zoneId, recordId, ip) ==
    /\ res[c].pc \in {"idle", "done", "failed"}
    /\ call[c].pc \in {"idle", "returned", "threw"}
    /\ res' = [res EXCEPT ![c] =
                  [IdleRes EXCEPT !.pc = "await", !.fn = "update",
                                  !.zoneId = zoneId, !.recordId = recordId,
                                  !.ip = ip]]
    /\ LoopTop(c, [IdleCall EXCEPT !.req = "PUT"], NoHist)
    /\ UNCHANGED <<now, horizon, detail>>
    /\ UNCHANGED <<zoneIdCache, recordIdCache, provGen, resolved, nm>>
    /\ UNCHANGED mainVars

\* lines 206-210: makeRequest has returned or thrown; a PUT the provider
\* accepted has stored the content
UpdateAnswer(c) ==
    /\ res[c].pc = "await"
    /\ res[c].fn = "update"
    /\ call[c].pc \in {"returned", "threw"}
    /\ \E o \in RecordBodies(res[c].zoneId, res[c].recordId) :
         /\ published' = IF call[c].pc = "returned" /\ o = "ok"
                         THEN [published EXCEPT ![res[c].recordId] = res[c].ip]
                         ELSE published
         /\ IF call[c].pc = "returned" /\ Success(o)
            THEN res' = [res EXCEPT ![c].pc = "done", ![c].body = o]
            ELSE res' = [res EXCEPT ![c].pc = "failed",
                                    ![c].body = BodyOf(c, o)]
    /\ UNCHANGED <<zoneIdCache, recordIdCache, provGen, resolved, nm>>
    /\ UNCHANGED <<env, cachedZoneId, cachedRecordId, mainPc, idx, curZoneId,
                   dnsRecords, publicIP, task, exitCause, failedIdx, prevStored,
                   obs>>
    /\ UNCHANGED gwVars

\* the four operations of part_003 under one caller
OperationsNext ==
    \/ \E c \in Callers, zn \in ResZoneNames : GetZoneId(c, zn)
    \/ \E c \in Callers : ZoneAnswer(c)
    \/ \E c \in Callers, z \in ResZoneIds, n \in ResRecordNames :
          GetRecordId(c, z, n)
    \/ \E c \in Callers : RecordAnswer(c)
    \/ \E c \in Callers, zr \in OpRecords : GetCurrentIP(c, zr[1], zr[2])
    \/ \E c \in Callers : CurrentIPAnswer(c)
    \/ \E c \in Callers, zr \in OpRecords, ip \in IPs :
          UpdateDNS(c, zr[1], zr[2], ip)
    \/ \E c \in Callers : UpdateAnswer(c)
    \/ \E c \in Callers : WakeQuota(c)
    \/ \E c \in Callers : FetchDone(c)
    \/ \E c \in Callers : Wake429(c)
    \/ \E c \in Callers : WakeError(c)
    \/ Tick

\* the account changes behind the program's back
ProviderChange ==
    /\ provGen = 0
    /\ provGen' = 1
    /\ UNCHANGED <<zoneIdCache, recordIdCache, res, resolved, nm>>
    /\ UNCHANGED <<mainVars, gwVars>>

ResolverNext ==
    \/ \E c \in Callers, zn \in ResZoneNames : GetZoneId(c, zn)
    \/ \E c \in Callers : ZoneAnswer(c)
    \/ \E c \in Callers, z \in ResZoneIds, n \in ResRecordNames :
          GetRecordId(c, z, n)
    \/ \E c \in Callers : RecordAnswer(c)
    \/ ProviderChange
    \/ \E c \in Callers : WakeQuota(c)
    \/ \E c \in Callers : FetchDone(c)
    \/ \E c \in Callers : Wake429(c)
    \/ \E c \in Callers : WakeError(c)
    \/ Tick

\* the keys concurrent callers resolve: a zone name and a record whose
\* identifiers the provider hands out anew after the account has changed
RaceZoneNames == {N_by}
RaceRecords == {<<"Z1", N_wax>>}

\* getZoneId / getRecordId called for the same keys by concurrent callers, all
\* within one tick of the clock: a timer that is due later has not fired yet
RaceNext ==
    \/ \E c \in Callers, zn \in RaceZoneNames : GetZoneId(c, zn)
    \/ \E c \in Callers : ZoneAnswer(c)
    \/ \E c \in Callers, zr \in RaceRecords : GetRecordId(c, zr[1], zr[2])
    \/ \E c \in Callers : RecordAnswer(c)
    \/ ProviderChange
    \/ \E c \in Callers : FetchDone(c)
    \/ \E c \in Callers : Wake429(c)

vars == <<mainVars, gwVars, resVars>>

Init == MainInit /\ GatewayParked /\ ResolverParked

Next == MainNext

Spec == Init /\ [][Next]_vars

\* the same program, with a poll timer that fires (index.ts 223)
InitLoop ==
    MainStart(NameListsUpTo(MaxLoopRecords)) /\ GatewayParked /\ ResolverParked

SpecLoop == InitLoop /\ [][Next]_vars /\ WF_vars(Sleep)

\* makeRequest under NumCallers concurrent callers
InitGateway ==
    /\ MainParked
    /\ GatewayStart(NumCallers, ConcHorizon, Unobserved) /\ winObs = WinOff
    /\ ResolverParked

NextGateway == GatewayNext

SpecGateway == InitGateway /\ [][NextGateway]_vars

\* makeRequest under one caller that calls again and again
InitSeq ==
    /\ MainParked
    /\ GatewayStart(1, SeqHorizon, AllObserved) /\ winObs = WinOff
    /\ ResolverParked

\* makeRequest under one caller whose timers fire and whose fetches settle
InitCalls ==
    /\ MainParked
    /\ GatewayStart(1, SeqHorizon, CallsObserved) /\ winObs = WinOff
    /\ ResolverParked

SpecCalls ==
    /\ InitCalls
    /\ [][NextGateway]_vars
    /\ WF_vars(Tick)
    /\ \A c \in {1} : /\ WF_vars(WakeQuota(c))
                      /\ WF_vars(FetchDone(c))
                      /\ WF_vars(Wake429(c))
                      /\ WF_vars(WakeError(c))

\* makeRequest under one caller, the windows observed
InitWindow ==
    /\ MainParked
    /\ GatewayStart(1, WinHorizon, Unobserved) /\ winObs = WinFresh
    /\ ResolverParked

SpecWindow == InitWindow /\ [][NextGateway]_vars

SpecSeq == InitSeq /\ [][NextGateway]_vars

\* getZoneId / getRecordId of part_003 under one caller, on top of makeRequest
ResolverEnvs == [token : {TRUE}, names : {<<>>}, zoneId : {None, "Z1"},
                 recordId : {None, "R2"}, recordName : {NoName}]

InitResolver ==
    /\ \E e \in ResolverEnvs : MainOff(e)
    /\ GatewayStart(1, ResHorizon, Unobserved) /\ winObs = WinOff
    /\ ResolverStart(1)

NextResolver == ResolverNext

SpecResolver == InitResolver /\ [][NextResolver]_vars

\* getZoneId / getRecordId of part_003 under NumCallers concurrent callers
\* without override ids, while the clock stands at 0
InitRace ==
    /\ MainParked
    /\ GatewayStart(NumCallers, 0, Unobserved) /\ winObs = WinOff
    /\ ResolverStart(NumCallers)

NextRace == RaceNext

SpecRace == InitRace /\ [][NextRace]_vars

\* getZoneId, getRecordId, getCurrentIP and updateDNS of part_003 under one
\* caller without override ids, the response of each call recorded
InitOperations ==
    /\ MainParked
    /\ GatewayStart(1, ResHorizon, CallsObserved) /\ winObs = WinOff
    /\ ResolverStart(1)

NextOperations == OperationsNext

SpecOperations == InitOperations /\ [][NextOperations]_vars

\* validateAndFixRecordName applied to each pair of arguments
InitName ==
    /\ MainParked
    /\ GatewayParked
    /\ CachesParked
    /\ nm \in [pc : {"call"}, recordName : NameInputs, zoneName : ZoneInputs,
                out : {<<>>}, again : {<<>>}]

NextName == Validate \/ ValidateAgain

SpecName == InitName /\ [][NextName]_vars

\* initializeDNSRecords applied to each entry, up to the validated name
InitEntry ==
    /\ MainParked
    /\ GatewayParked
    /\ CachesParked
    /\ nm \in [pc : {"entry"}, recordName : EntryInputs, zoneName : {<<>>},
                out : {<<>>}, again : {<<>>}]

NextEntry == ValidateEntry

SpecEntry == InitEntry /\ [][NextEntry]_vars

\* ------------------------------------------------------------------ claims

\* the provider holds a zone and an A record for this configured name
ProviderResolves(name) ==
    LET zoneName == DeriveZoneName(name)
        zone == FindZone(ProviderZones, zoneName)
    IN  /\ Len(Split(name, Dot)) >= 2
        /\ zone # None
        /\ FindRecord(RecordsOfZone(zone),
                      validateAndFixRecordName(name, zoneName)) # None

\* C11: a call of getZoneId or getRecordId whose key was resolved before makes
\* no provider request and returns the identifier the key was first resolved
\* to, whatever the provider holds now.
C11_CacheHitAvoidsLookup ==
    \A c \in DOMAIN res :
        res[c].known # None =>
            /\ res[c].pc = "done"
            /\ res[c].lookups = 0
            /\ res[c].out = res[c].known

\* C11 witness: after the account has changed, a zone name and a record key are
\* resolved again to identifiers the provider no longer hands out.
C11_Witness ==
    \E c \in DOMAIN res :
        /\ provGen = 1
        /\ res[c].pc = "done"
        /\ res[c].known # None
        /\ \/ /\ res[c].fn = "zone"
              /\ res[c].out # FindZone(ProviderZonesAt(1), res[c].name)
           \/ /\ res[c].fn = "record"
              /\ res[c].out # FindRecord(RecordsOfZoneAt(1, res[c].zoneId),
                                         res[c].name)

\* C21: whatever the status of the response makeRequest returned, a body with
\* success false makes getZoneId, getRecordId, getCurrentIP and updateDNS throw:
\* the call fails and returns nothing, and the step that reads the body leaves
\* both identifier caches as they were.
C21_SuccessFalseIsFailure ==
    /\ [](\A c \in DOMAIN res :
            res[c].body = "rejected" =>
                res[c].pc = "failed" /\ res[c].out = None)
    /\ [][\A c \in DOMAIN res :
            (res'[c].body = "rejected" /\ res[c].body # "rejected") =>
                /\ zoneIdCache' = zoneIdCache
                /\ recordIdCache' = recordIdCache]_vars

\* C21 witness: a lookup has failed on a body with success false that came with
\* status 200, for a name the provider holds and whose key stays uncached.
C21_Witness ==
    \E c \in DOMAIN res :
        /\ res[c].fn = "zone"
        /\ res[c].pc = "failed"
        /\ res[c].body = "rejected"
        /\ hist[c].result.status = 200
        /\ FindZone(ProviderZones, res[c].name) # None
        /\ zoneIdCache[res[c].name] = None

\* C22 as claimed: a key of an identifier cache that has been populated is
\* never removed and its value never changes afterwards, also where two calls
\* for the same key both miss and look the key up with different results.
C22_WriteOnce ==
    [][/\ \A k \in DOMAIN zoneIdCache :
             zoneIdCache[k] # None => zoneIdCache'[k] = zoneIdCache[k]
       /\ \A k \in DOMAIN recordIdCache :
             recordIdCache[k] # None => recordIdCache'[k] = recordIdCache[k]]_vars

\* a step changes the value of a populated key k only as the write of a lookup
\* for k that began before k was first populated and was still under way
OverwrittenByEarlierMiss(cache, cacheAfter, fn) ==
    \A k \in DOMAIN cache :
        cache[k] # None =>
            /\ cacheAfter[k] # None
            /\ cacheAfter[k] # cache[k] =>
                  \E c \in DOMAIN res :
                      /\ res[c].pc = "await"
                      /\ res[c].fn = fn
                      /\ res[c].key = k
                      /\ res[c].known = None
                      /\ res'[c].pc = "done"
                      /\ res'[c].out = cacheAfter[k]

\* C22 amended: a key of an identifier cache that has been populated is never
\* removed, and no call that begins afterwards changes its value; its value
\* changes only when a lookup that missed before the key was populated ends
\* later with another result (last write wins).
C22_LastWriteWins ==
    [][/\ OverwrittenByEarlierMiss(zoneIdCache, zoneIdCache', "zone")
       /\ OverwrittenByEarlierMiss(recordIdCache, recordIdCache', "record")]_vars

\* C22 witness: two lookups of one key both missed, the provider changed in
\* between, and the key now holds the second result, not the first.
C22_Witness ==
    \/ \E k \in DOMAIN zoneIdCache :
          /\ resolved[k] # None
          /\ zoneIdCache[k] \notin {None, resolved[k]}
    \/ \E k \in DOMAIN recordIdCache :
          /\ resolved[k] # None
          /\ recordIdCache[k] \notin {None, resolved[k]}

\* C23: with CF_ZONE_ID (CF_RECORD_ID) set, every call of getZoneId
\* (getRecordId) returns the override without a provider request and leaves it
\* stored under the requested key, so that every populated key holds that one
\* identifier; with both set the resolver issues no request at all.
C23_OverrideSkipsLookup ==
    /\ \A c \in DOMAIN res :
          /\ (env.zoneId # None /\ res[c].fn = "zone") =>
                /\ res[c].pc = "done"
                /\ res[c].lookups = 0
                /\ res[c].out = env.zoneId
                /\ zoneIdCache[res[c].key] = env.zoneId
          /\ (env.recordId # None /\ res[c].fn = "record") =>
                /\ res[c].pc = "done"
                /\ res[c].lookups = 0
                /\ res[c].out = env.recordId
                /\ recordIdCache[res[c].key] = env.recordId
    /\ env.zoneId # None =>
          \A k \in DOMAIN zoneIdCache : zoneIdCache[k] \in {None, env.zoneId}
    /\ env.recordId # None =>
          \A k \in DOMAIN recordIdCache :
              recordIdCache[k] \in {None, env.recordId}
    /\ (env.zoneId # None /\ env.recordId # None) =>
          requestCount = 0 /\ \A c \in Callers : call[c].pc = "idle"

\* C23 witness: under CF_ZONE_ID = Z1 and CF_RECORD_ID = R2 every zone name,
\* one of another zone and one of no zone among them, is resolved to Z1, and
\* every record key to R2.
C23_Witness ==
    /\ env.zoneId = "Z1"
    /\ env.recordId = "R2"
    /\ \A k \in ResZoneNames : zoneIdCache[k] = "Z1"
    /\ \A k \in RecordKeys : recordIdCache[k] = "R2"

\* a task of updateDNSRecords with a provider request under way
InFlight(t) == t.pc \in {"read", "put"}

\* C24: the sleep of a cycle starts only once every reconcile task of the cycle
\* has succeeded or failed; while main sleeps no task moves and nothing is
\* published; and the tasks of the next cycle are created, and their requests
\* issued, only after the sleep, when no task of the cycle before is under way.
C24_CyclesSequential ==
    /\ [](mainPc \in {"sleep", "detect"} =>
            \A i \in Tasks : ~InFlight(task[i]))
    /\ [][mainPc' = "sleep" =>
            \A i \in Tasks : task[i].pc \in {"done", "failed"}]_vars
    /\ [][mainPc = "sleep" =>
            /\ mainPc' = "detect"
            /\ task' = task /\ published' = published]_vars
    /\ [][(\E i \in DOMAIN task' :
               InFlight(task'[i]) /\ (i \in Tasks => task'[i] # task[i])) =>
            /\ mainPc \in {"detect", "fanout"}
            /\ mainPc' = "fanout"
            /\ mainPc = "detect" => \A j \in Tasks : ~InFlight(task[j])]_vars

\* C24 witness: in the cycle that follows one over two records, one of which
\* stored nothing, a PUT is under way.
C24_Witness ==
    /\ mainPc = "fanout"
    /\ Len(prevStored) = 2
    /\ obs.reads = 2
    /\ \E i \in Tasks : task[i].pc = "put"
    /\ \E i \in Tasks : prevStored[i].stored = None /\ prevStored[i].ip # None

\* the name is the zone name, or its last characters are "." and the zone name
UnderZone(recordName, zoneName) ==
    \/ recordName = zoneName
    \/ /\ Len(recordName) > Len(zoneName)
       /\ SubSeq(recordName, Len(recordName) - Len(zoneName),
                 Len(recordName)) = <<Dot>> \o zoneName

\* C25: for every CF_RECORD_NAMES entry of at least two dot-separated parts,
\* the name handed to getRecordId and stored in the record is the entry itself,
\* returned unchanged by validateAndFixRecordName, and it is the derived zone
\* name or ends with "." and the derived zone name.
C25_EntriesAreQualified ==
    /\ nm.pc = "validated" =>
          /\ nm.out = nm.recordName
          /\ UnderZone(nm.out, nm.zoneName)
    /\ nm.pc = "invalid" => Len(Split(nm.recordName, Dot)) < 2

\* C25 witness: the entry "w..w", whose middle part is empty, was validated
\* under the zone name ".w" and is handed on as it is.
C25_Witness ==
    /\ nm.pc = "validated"
    /\ nm.recordName = <<"w", Dot, Dot, "w">>
    /\ nm.zoneName = <<Dot, "w">>
    /\ nm.out = nm.recordName

\* C12 as claimed: once a used-up window has run out, none of the next
\* MAX_REQUESTS_PER_WINDOW sequential calls enters the quota wait.
C12_NextCallsDoNotWait ==
    \A c \in Callers :
        (winObs.wasFull /\ winObs.calls <= MAX_REQUESTS_PER_WINDOW)
            => call[c].pc # "quotaWait"

\* C12 amended: once a window has run out, the next MAX_REQUESTS_PER_WINDOW
\* fetches of a sequential caller, the retries of a call among them, are
\* issued without the quota wait: a call waits only when that many fetches
\* were issued in the window.
C12_NextFetchesDoNotWait ==
    /\ winObs.fetches <= MAX_REQUESTS_PER_WINDOW
    /\ \A c \in Callers :
          call[c].pc = "quotaWait" =>
              winObs.fetches = MAX_REQUESTS_PER_WINDOW

\* C12 witness: the window after a used-up one holds MAX_REQUESTS_PER_WINDOW
\* calls, each of which fetched once and returned without waiting.
C12_Witness ==
    /\ winObs.wasFull
    /\ winObs.calls = MAX_REQUESTS_PER_WINDOW
    /\ winObs.fetches = MAX_REQUESTS_PER_WINDOW
    /\ \A c \in Callers : call[c].pc = "returned"

\* the reference of C13, read off the claim: the name has a "." somewhere and
\* its last characters are the zone name
IsQualified(recordName, zoneName) ==
    /\ \E i \in 1..Len(recordName) : recordName[i] = Dot
    /\ Len(recordName) >= Len(zoneName)
    /\ \A i \in 1..Len(zoneName) :
          recordName[Len(recordName) - Len(zoneName) + i] = zoneName[i]

Reference(recordName, zoneName) ==
    CASE IsQualified(recordName, zoneName) -> recordName
      [] ~IsQualified(recordName, zoneName)
            /\ recordName # <<>> /\ recordName[Len(recordName)] = Dot
              -> [i \in 1..(Len(recordName) + Len(zoneName)) |->
                    IF i <= Len(recordName) THEN recordName[i]
                    ELSE zoneName[i - Len(recordName)]]
      [] OTHER -> [i \in 1..(Len(recordName) + 1 + Len(zoneName)) |->
                    IF i <= Len(recordName) THEN recordName[i]
                    ELSE IF i = Len(recordName) + 1 THEN Dot
                    ELSE zoneName[i - Len(recordName) - 1]]

\* C13: validateAndFixRecordName returns what the reference returns, and
\* "www.example.com" for "www", "www." and "www.example.com" under the zone
\* "example.com".
C13_ValidateMatchesReference ==
    nm.pc = "returned" =>
        /\ nm.out = Reference(nm.recordName, nm.zoneName)
        /\ (/\ nm.zoneName = N_example
            /\ nm.recordName \in {N_www, N_wwwDot, N_wwwExample})
              => nm.out = N_wwwExample

\* C13 witness: the call ("www.", "example.com") has returned.
C13_Witness ==
    /\ nm.pc = "returned"
    /\ nm.recordName = N_wwwDot
    /\ nm.zoneName = N_example
    /\ nm.out = N_wwwExample

\* C27: whatever the record name and the zone name, the result of
\* validateAndFixRecordName contains "." and ends with the zone name, and the
\* function applied to its result and the same zone name returns that result.
C27_IdempotentAndQualified ==
    /\ nm.pc \in {"returned", "twice"} => IsQualified(nm.out, nm.zoneName)
    /\ nm.pc = "twice" => nm.again = nm.out

\* C27 witness: "www." under "example.com" gave "www.example.com", and so did
\* the second application.
C27_Witness ==
    /\ nm.pc = "twice"
    /\ nm.recordName = N_wwwDot
    /\ nm.zoneName = N_example
    /\ nm.out = N_wwwExample
    /\ nm.again = N_wwwExample

\* the poll loop of main has started
InLoop(pc) == pc \in {"detect", "fanout", "sleep"}

\* C14: once the poll loop has started the process stays in it; a failed IP
\* detection leads to the sleep with no record read or updated; the sleep is
\* always followed by the next iteration; an exit comes from initialization.
C14_LoopNeverTerminates ==
    /\ [][InLoop(mainPc) => InLoop(mainPc')]_vars
    /\ [][(mainPc = "detect" /\ mainPc' # "fanout") =>
             (mainPc' = "sleep" /\ UNCHANGED <<task, published>>)]_vars
    /\ [](obs.ipFailed => (mainPc = "sleep" /\ obs.reads = 0))
    /\ [][mainPc = "sleep" => mainPc' = "detect"]_vars
    /\ (mainPc = "sleep") ~> (mainPc = "detect")
    /\ [](mainPc = "exited" =>
            /\ exitCause \in {"config", "resolution"}
            /\ publicIP = None /\ task = <<>>)

\* C14 witness: an IP detection has failed in a cycle that follows one in
\* which a record's reconcile failed, and the loop is at its sleep.
C14_Witness ==
    /\ mainPc = "sleep"
    /\ obs.ipFailed
    /\ publicIP # None
    /\ \E i \in Tasks : task[i].pc = "failed"

\* C15: in a poll cycle getPublicIP is called once, and every comparison and
\* every update content of the cycle, for every managed record, uses the
\* value it returned.
C15_SingleObservedIP ==
    /\ [](mainPc = "fanout" => obs.ipCalls = 1)
    /\ [](obs.ipCalls <= 1)
    /\ [][mainPc = "fanout" => publicIP' = publicIP]_vars
    /\ [](\A i \in Tasks :
            /\ task[i].puts > 0 =>
                  /\ task[i].putContent = publicIP
                  /\ task[i].putBody.content = publicIP
            /\ task[i].currentIP # None =>
                  (task[i].puts > 0 <=> task[i].currentIP # publicIP))

\* C15 witness: in one cycle over two records one record was compared and
\* left alone and the other was updated with the observed IP.
C15_Witness ==
    /\ mainPc = "fanout"
    /\ obs.ipCalls = 1
    /\ \E i, j \in Tasks :
         /\ task[i].pc = "done" /\ task[i].puts = 0
         /\ task[j].pc = "done" /\ task[j].stored = publicIP

\* C16: a record whose getCurrentIP or updateDNS fails issues no further
\* update in the cycle and changes no other record's task; updateDNSRecords
\* completes once every task has ended; and a record that was read is updated
\* exactly when its published IP differs from the observed one.
C16_PerRecordIsolation ==
    /\ [][\A i \in Tasks :
            (i \in DOMAIN task' /\ task[i].pc # "failed"
                                /\ task'[i].pc = "failed") =>
                /\ task[i].pc \in {"read", "put"}
                /\ task'[i].puts = task[i].puts
                /\ mainPc' = mainPc
                /\ \A j \in Tasks \ {i} : task'[j] = task[j]]_vars
    /\ [][\A i \in Tasks :
            (task[i].pc = "failed" /\ mainPc = "fanout"
                                   /\ mainPc' = "fanout") =>
                (i \in DOMAIN task' /\ task'[i] = task[i])]_vars
    /\ [][(mainPc = "fanout" /\ mainPc' # "fanout") =>
            /\ mainPc' = "sleep"
            /\ \A i \in Tasks : task[i].pc \in {"done", "failed"}]_vars
    /\ [](\A i \in Tasks :
            task[i].pc = "done" =>
                /\ task[i].currentIP # None
                /\ task[i].currentIP # publicIP => task[i].stored = publicIP)

\* C16 witness: the cycle is over, one record's reconcile has failed and
\* another record was updated in the same cycle.
C16_Witness ==
    /\ mainPc = "sleep"
    /\ ~obs.ipFailed
    /\ \E i, j \in Tasks :
         /\ task[i].pc = "failed"
         /\ task[j].pc = "done" /\ task[j].stored = publicIP

\* C17: every PUT issued for a managed record carries type "A", ttl 1, proxied
\* false, the observed IP as content and the record's own recordName as name.
C17_PutBodyNamesOwnRecord ==
    \A i \in Tasks :
        task[i].puts > 0 =>
            task[i].putBody =
                [type |-> "A", name |-> dnsRecords[i].recordName,
                 content |-> publicIP, ttl |-> 1, proxied |-> FALSE]

\* the first entry of CF_RECORD_NAMES with fewer than two parts, or 0
BadIdx(names) ==
    LET bad == {i \in 1..Len(names) : Len(Split(names[i], Dot)) < 2}
    IN  IF bad = {} THEN 0 ELSE CHOOSE i \in bad : \A j \in bad : i <= j

ConfigError(e) == ~e.token \/ e.names = <<>> \/ BadIdx(e.names) > 0

C1_InitIsolatesResolutionFailure ==
    (/\ Len(env.names) = 2
     /\ failedIdx = 1
     /\ ProviderResolves(env.names[2]))
        => /\ mainPc # "exited"
           /\ mainPc \in {"detect", "fanout", "sleep"} =>
                 /\ Len(dnsRecords) = 1
                 /\ dnsRecords[1].recordName = env.names[2]

\* C5: a reconcile that reads a published IP A different from the observed IP B
\* invokes updateDNS exactly once, with content B; and in the reconcile cycle
\* that follows a stored update to B, with B observed again, updateDNS is
\* invoked zero times for that record.
C5_Convergence ==
    \A i \in Tasks :
        /\ task[i].puts <= 1
        /\ (task[i].currentIP # None /\ task[i].currentIP # publicIP)
              => task[i].puts = 1 /\ task[i].putContent = publicIP
        /\ (/\ i \in DOMAIN prevStored
            /\ prevStored[i].stored # None
            /\ prevStored[i].stored = prevStored[i].ip
            /\ prevStored[i].ip = publicIP)
              => task[i].puts = 0

\* C5 witness: the cycle after a stored update has read the record again with
\* the same observed IP and has finished without an update.
C5_Witness ==
    \E i \in Tasks :
        /\ i \in DOMAIN prevStored
        /\ prevStored[i].stored = publicIP
        /\ prevStored[i].ip = publicIP
        /\ task[i].pc = "done"
        /\ task[i].currentIP = publicIP
        /\ task[i].puts = 0

\* C6: in a poll cycle, a managed record whose published IP, as getCurrentIP
\* returned it in that cycle, equals the observed public IP gets no PUT.
C6_Idempotence ==
    \A i \in Tasks :
        task[i].currentIP = publicIP =>
            /\ task[i].puts = 0
            /\ task[i].pc = "done"

\* C6 witness: two managed records, both read as already up to date.
C6_Witness ==
    /\ Len(task) = 2
    /\ mainPc = "sleep"
    /\ \A i \in Tasks : task[i].currentIP = publicIP /\ task[i].pc = "done"

\* C10: with no override IDs, every ManagedRecord carries the id of the provider
\* zone named by its zoneName and the id of the provider A record named by its
\* recordName.
C10_OwnIdentifiers ==
    (env.zoneId = None /\ env.recordId = None) =>
        \A i \in 1..Len(dnsRecords) :
            /\ dnsRecords[i].zoneId =
                   FindZone(ProviderZones, dnsRecords[i].zoneName)
            /\ dnsRecords[i].recordId =
                   FindRecord(RecordsOfZone(dnsRecords[i].zoneId),
                              dnsRecords[i].recordName)

\* C2: under any interleaving of concurrent makeRequest calls, no more than
\* MAX_REQUESTS_PER_WINDOW fetches are issued from one rollover of the rate
\* window to the next, also when several callers wake from the quota wait.
C2_CeilingPerWindow == epochFetches <= MAX_REQUESTS_PER_WINDOW

\* the fetches, among the last MAX_REQUESTS_PER_WINDOW + 1, issued at or after t
IssuedSince(t) == {k \in 1..Len(recent) : recent[k] >= t}

\* C3 as claimed: for one sequential caller every interval of length
\* RATE_LIMIT_WINDOW holds at most MAX_REQUESTS_PER_WINDOW fetches, that is,
\* MAX_REQUESTS_PER_WINDOW + 1 fetches in a row never fit in less than a window.
C3_RollingWindow ==
    Len(recent) = MAX_REQUESTS_PER_WINDOW + 1 =>
        recent[Len(recent)] - recent[1] >= RATE_LIMIT_WINDOW

\* C3 amended: for one sequential caller the fetches issued since windowStart
\* are counted by requestCount and are at most MAX_REQUESTS_PER_WINDOW.
C3_FixedWindow ==
    /\ Cardinality(IssuedSince(windowStart)) <= MAX_REQUESTS_PER_WINDOW
    /\ Cardinality(IssuedSince(windowStart)) = requestCount

\* C3 witness: the window has been reset and filled again, and the last
\* MAX_REQUESTS_PER_WINDOW + 1 fetches straddle the reset within one window length.
C3_Witness ==
    /\ windowStart > 0
    /\ requestCount = MAX_REQUESTS_PER_WINDOW
    /\ Len(recent) = MAX_REQUESTS_PER_WINDOW + 1
    /\ recent[1] < windowStart
    /\ recent[Len(recent)] - recent[1] < RATE_LIMIT_WINDOW

\* C4: under any interleaving of concurrent makeRequest calls requestCount stays
\* within 0..MAX_REQUESTS_PER_WINDOW, and a caller enters the quota wait only
\* at the ceiling and leaves the counter as it found it.
C4_CounterWithinCeiling ==
    /\ [](requestCount \in 0..MAX_REQUESTS_PER_WINDOW)
    /\ [][\A c \in Callers :
            (call[c].pc # "quotaWait" /\ call'[c].pc = "quotaWait") =>
                /\ requestCount = MAX_REQUESTS_PER_WINDOW
                /\ requestCount' = requestCount]_vars

\* C4 witness: the counter is at the ceiling while two callers sleep on it.
C4_Witness ==
    /\ requestCount = MAX_REQUESTS_PER_WINDOW
    /\ \E c, d \in Callers :
         c # d /\ call[c].pc = "quotaWait" /\ call[d].pc = "quotaWait"

\* every fetch of the call so far threw a network-level error
AllNetErrors(c) ==
    \A k \in 1..Len(hist[c].log) : hist[c].log[k] = "net"

\* every fetch of the call so far was answered 429
All429(c) ==
    \A k \in 1..Len(hist[c].log) : hist[c].log[k] \in {"429", "429ra"}

LastLog(c) ==
    IF hist[c].log = <<>> THEN None ELSE hist[c].log[Len(hist[c].log)]

\* C7: a call whose every fetch throws a network-level error issues the first
\* attempt and exactly MAX_RETRIES retries, and then throws.
C7_BoundedNetworkRetries ==
    \A c \in Callers :
        AllNetErrors(c) =>
            /\ hist[c].nFetch <= MAX_RETRIES + 1
            /\ call[c].pc = "threw" =>
                  /\ hist[c].nFetch = MAX_RETRIES + 1
                  /\ Len(hist[c].log) = MAX_RETRIES + 1
            /\ Len(hist[c].log) = MAX_RETRIES + 1 => call[c].pc = "threw"

\* C7 witness: a call has thrown after MAX_RETRIES + 1 failed fetches.
C7_Witness ==
    \E c \in Callers :
        /\ call[c].pc = "threw"
        /\ AllNetErrors(c)
        /\ hist[c].nFetch = MAX_RETRIES + 1

\* C8: a call answered 429 every time gives up only once more than MAX_RETRIES
\* retries would be needed, as a call that meets network errors does.
C8_SameCeilingFor429 ==
    \A c \in Callers :
        (call[c].pc = "threw" /\ All429(c)) =>
            Len(hist[c].log) = MAX_RETRIES + 1

\* C9 as claimed: after a 429 with a retry-after header no fetch of the call
\* is issued before the delay has passed, and the call then goes on to
\* fetch again: it does not end with that 429.
C9_RetryAfterThenReissue ==
    \A c \in Callers :
        /\ ~hist[c].early
        /\ call[c].pc = "threw" => LastLog(c) # "429ra"

\* C9 amended: after a 429 with a retry-after header no fetch of the call is
\* issued before the delay has passed; after the delay the call throws if its
\* retry counter has reached MAX_RETRIES and otherwise issues the same request
\* again; a response that is not a 429 is returned.
C9_RetryAfterHonoured ==
    \A c \in Callers :
        /\ ~hist[c].early
        /\ hist[c].nFetch > 0 => hist[c].sent = call[c].req
        /\ call[c].pc = "returned" =>
              /\ LastLog(c) = "other"
              /\ hist[c].result \in Responses
              /\ hist[c].result.status # 429
        /\ LastLog(c) = "429ra" =>
              /\ call[c].pc \in {"wait429", "threw", "quotaWait", "fetching"}
              /\ call[c].pc # "wait429" =>
                    (call[c].pc = "threw" <=> call[c].retries >= MAX_RETRIES)
              /\ call[c].pc = "wait429" =>
                    call[c].wakeAt >= hist[c].notBefore \/ call[c].wakeAt > horizon

\* C9 witness: a call answered 429 with a retry-after header and then with
\* another response has returned that response after two fetches.
C9_Witness ==
    \E c \in Callers :
        /\ call[c].pc = "returned"
        /\ hist[c].log = <<"429ra", "other">>
        /\ hist[c].nFetch = 2
        /\ hist[c].result.status = 200

\* the call is under way: inside makeRequest, not yet returned or thrown
Active(c) == call[c].pc \in {"quotaWait", "fetching", "wait429", "waitErr"}

\* C26: a 429 response without retry-after header makes the call wait
\* RETRY_DELAY * 2^attempt, attempt being the retries the call has made so far
\* (one tick after a first 429, two after a second one); the call leaves the
\* wait no sooner, and then, unless its retries are used up, goes through the
\* window-expiry check and the quota check before it issues the request.
C26_BackoffThenRecheck ==
    /\ [][\A c \in Callers :
            (/\ call[c].pc = "fetching" /\ call'[c].pc = "wait429"
             /\ LastLog(c)' = "429") =>
                /\ call[c].retries = Len(hist[c].log)
                /\ call'[c].wakeAt = Timer(RETRY_DELAY * Pow2(call[c].retries))
                /\ Len(hist[c].log) = 0 => call'[c].wakeAt = Timer(1)
                /\ Len(hist[c].log) = 1 => call'[c].wakeAt = Timer(2)]_vars
    /\ [][\A c \in Callers :
            (call[c].pc = "wait429" /\ call'[c].pc # "wait429") =>
                LET expired == now - windowStart >= RATE_LIMIT_WINDOW
                    count == IF expired THEN 0 ELSE requestCount
                IN  /\ now >= call[c].wakeAt
                    /\ call'[c].pc \in {"fetching", "quotaWait", "threw"}
                    /\ call'[c].pc = "threw" =>
                          call[c].retries + 1 >= MAX_RETRIES
                    /\ call'[c].pc = "fetching" =>
                          /\ count < MAX_REQUESTS_PER_WINDOW
                          /\ requestCount' = count + 1
                          /\ windowStart' = IF expired THEN now ELSE windowStart
                    /\ call'[c].pc = "quotaWait" =>
                          /\ count >= MAX_REQUESTS_PER_WINDOW
                          /\ requestCount' = count]_vars

\* C26 witness: a call got two 429 responses without header at time 0 and 1,
\* waited one tick and two ticks, and issues its third request at time 3 as the
\* first one of a new window.
C26_Witness ==
    \E c \in Callers :
        /\ call[c].pc = "fetching"
        /\ hist[c].log = <<"429", "429">>
        /\ now = 3
        /\ windowStart = 3
        /\ requestCount = 1

\* C18: a response with a 5xx status is not returned to the caller; the
\* request is retried and, at the retry ceiling, the call fails.
C18_ServerErrorsRetried ==
    \A c \in Callers :
        call[c].pc = "returned" => hist[c].result.status # 500

\* C19: whatever the fetches come to, a call issues at most MAX_RETRIES + 1 of
\* them and then returns or throws; a caller in the quota wait goes on to
\* issue its fetch, and is never handed an error instead.
C19_EveryCallTerminates ==
    /\ [](\A c \in Callers : hist[c].nFetch <= MAX_RETRIES + 1)
    /\ [][\A c \in Callers :
            call[c].pc = "quotaWait" =>
                call'[c].pc \in {"quotaWait", "fetching"}]_vars
    /\ \A c \in {1} :
          /\ (call[c].pc = "quotaWait" /\ call[c].wakeAt <= horizon)
                ~> (call[c].pc = "fetching")
          /\ Active(c)
                ~> (call[c].pc \in {"returned", "threw"}
                      \/ call[c].wakeAt > horizon)

\* C19 witness: a call has met network errors and then a 429, and has thrown
\* after MAX_RETRIES + 1 fetches.
C19_Witness ==
    \E c \in Callers :
        /\ call[c].pc = "threw"
        /\ hist[c].nFetch = MAX_RETRIES + 1
        /\ hist[c].log[1] = "net"
        /\ LastLog(c) \in {"429", "429ra"}

====
